---- MODULE Spec2Model ----
(***************************************************************************)
(* ArcGIS Server service manager (src/arcgis_service_manager.py).          *)
(*                                                                         *)
(* One process run is: authenticate, then one of the three workflows       *)
(* save_services_state, stop_all_except_one, restore_services_state.       *)
(* The ArcGIS Server (catalog of services, one configuration record per    *)
(* service) and the snapshot file are the environment the process acts     *)
(* on.  Every remote request either succeeds or fails, chosen freely.      *)
(***************************************************************************)
EXTENDS Integers, Sequences, FiniteSets, TLC

(***************************************************************************)
(* Bounds of the model.                                                    *)
(***************************************************************************)
\* The server holds at most this many services.
MaxServices == 3
\* A snapshot file given to restore holds at most this many rows.
MaxRows == 2

(***************************************************************************)
(* Python values.                                                          *)
(***************************************************************************)
\* Python's None (self.token before authentication, a failed request's
\* result, a field csv.DictReader could not fill).
None == "None"

\* self.excluded_folders
excluded_folders == {"Hosted", "System", "Utilities"}

Excluded_NoUtilities(folder) == folder \in {"Hosted", "System"}

\* service['folder'] in self.excluded_folders
Excluded(folder) == folder \in excluded_folders

(***************************************************************************)
(* The server: service identities and configuration records.               *)
(***************************************************************************)
\* A discovered service, as get_services builds it.
Service(folder, name, type) == [folder |-> folder, name |-> name, type |-> type]

rootParcels == Service("", "Parcels", "MapServer")
rootRoads == Service("", "Roads", "MapServer")
mapsParcels == Service("Maps", "Parcels", "FeatureServer")
hostedRoads == Service("Hosted", "Roads", "FeatureServer")
systemParcels == Service("System", "Parcels", "GPServer")
utilitiesRoads == Service("Utilities", "Roads", "GeometryServer")

\* The services a server of the model may hold, in a fixed reference order.
Universe == <<rootParcels, rootRoads, mapsParcels, hostedRoads, systemParcels, utilitiesRoads>>

UniverseSet == {Universe[i] : i \in 1..Len(Universe)}

\* --keep-service values: two names that exist and one that never does.
KeeperNames == {"Parcels", "Roads", "Zoning"}

\* Keys of a service configuration record.
ServerManagedKeys == {"status", "configuredState", "realTimeState", "extensions"}

AllKeys == ServerManagedKeys \cup {"minInstancesPerNode", "maxInstancesPerNode", "description"}

\* A configuration record with the given keys: a function from keys to values.
MkRecord(keys, state, min, max) ==
    [k \in keys |->
        CASE k = "configuredState" -> state
          [] k = "minInstancesPerNode" -> min
          [] k = "maxInstancesPerNode" -> max
          [] k = "status" -> "SUCCESS"
          [] k = "realTimeState" -> state
          [] k = "extensions" -> "[]"
          [] OTHER -> "text"]

\* The records a service may start with: two complete ones and one from which
\* the server left out configuredState and minInstancesPerNode.
ServerRecords ==
    << MkRecord(AllKeys, "STARTED", 2, 4),
       MkRecord(AllKeys, "STOPPED", 0, 3),
       MkRecord({"maxInstancesPerNode", "description"}, "STOPPED", 0, 0) >>

\* Profile p gives the i-th service of Universe the record number
\* ((i + p) mod 3) + 1, so that every service starts with every record in
\* some profile.
Profiles == 0..2

ProfileRecord(p, id) ==
    LET i == CHOOSE j \in 1..Len(Universe) : Universe[j] = id
    IN ServerRecords[((i + p) % Len(ServerRecords)) + 1]

\* dict.get(key, default)
Get(d, key, default) == IF key \in DOMAIN d THEN d[key] ELSE default

\* What _make_request returns for a failed request (Python's None). The code
\* only ever tests a result for truth or reads it with get, and None and {}
\* answer both alike, so the model writes None as the record with no key.
NoResult == <<>>

\* Truth value of a request's result: None and {} are false.
Truthy(d) == DOMAIN d # {}

(***************************************************************************)
(* Sequences.                                                              *)
(***************************************************************************)
Range(s) == {s[i] : i \in 1..Len(s)}

\* Whether no element occurs twice in s.
Distinct(s) == \A i, j \in 1..Len(s) : i # j => s[i] # s[j]

\* Sequences of elements of S of length at most n.
RECURSIVE SeqsUpTo(_, _)
SeqsUpTo(S, n) ==
    IF n = 0 THEN {<<>>}
    ELSE LET shorter == SeqsUpTo(S, n - 1)
         IN shorter \cup {Append(s, x) : s \in {t \in shorter : Len(t) = n - 1}, x \in S}

\* Sequences of distinct elements of S of length at most n.
DistinctSeqs(S, n) == {s \in SeqsUpTo(S, n) : Distinct(s)}

\* Whether s keeps the reference order of Universe.
InUniverseOrder(s) ==
    \A i, j \in 1..Len(s) :
        i < j => \E a, b \in 1..Len(Universe) : a < b /\ Universe[a] = s[i] /\ Universe[b] = s[j]

(***************************************************************************)
(* Text: what csv writes for an integer (str) and what int() reads.        *)
(***************************************************************************)
Digits == <<"0", "1", "2", "3", "4", "5", "6", "7", "8", "9">>

IsDigit(c) == \E d \in 1..Len(Digits) : Digits[d] = c

DigitValue(c) == (CHOOSE d \in 1..Len(Digits) : Digits[d] = c) - 1

\* str(n): the decimal digits of n, most significant first.
RECURSIVE Str(_)
Str(n) ==
    IF n < 0 THEN <<"-">> \o Str(0 - n)
    ELSE IF n < 10 THEN <<Digits[n + 1]>>
    ELSE Append(Str(n \div 10), Digits[(n % 10) + 1])

\* str.strip(): int() ignores blanks around the number.
RECURSIVE Strip(_)
Strip(t) ==
    IF t = <<>> THEN t
    ELSE IF Head(t) = " " THEN Strip(Tail(t))
    ELSE IF t[Len(t)] = " " THEN Strip(SubSeq(t, 1, Len(t) - 1))
    ELSE t

\* The digits of a stripped numeral, its sign taken off.
Unsigned(t) == IF t # <<>> /\ Head(t) \in {"-", "+"} THEN Tail(t) ELSE t

\* Whether int(t) returns; it raises ValueError otherwise.
IntOk(t) ==
    LET body == Unsigned(Strip(t))
    IN body # <<>> /\ \A i \in 1..Len(body) : IsDigit(body[i])

RECURSIVE DigitsValue(_)
DigitsValue(body) ==
    IF body = <<>> THEN 0
    ELSE 10 * DigitsValue(SubSeq(body, 1, Len(body) - 1)) + DigitValue(body[Len(body)])

\* int(t), for a text int() accepts.
ParseInt(t) ==
    LET s == Strip(t)
        v == DigitsValue(Unsigned(s))
    IN IF Head(s) = "-" THEN 0 - v ELSE v

\* str.upper() on the state texts of the model.
Upper(s) ==
    CASE s \in {"STARTED", "Started", "started"} -> "STARTED"
      [] s \in {"STOPPED", "Stopped", "stopped"} -> "STOPPED"
      [] OTHER -> s

(***************************************************************************)
(* The snapshot file: a header and rows of text fields, as csv holds them. *)
(***************************************************************************)
fieldnames ==
    <<"folder", "service_name", "service_type", "configured_state",
      "min_instances", "max_instances">>

\* Whether csv.DictReader's row has the key col (row[col] raises KeyError
\* otherwise): the keys are the header's names.
HasColumn(header, col) == col \in Range(header)

ColumnIndex(header, col) == CHOOSE i \in 1..Len(header) : header[i] = col

\* Whether row[col] is a text: DictReader fills the columns a short row
\* lacks with None.
HasField(header, fields, col) ==
    HasColumn(header, col) /\ ColumnIndex(header, col) <= Len(fields)

\* row[col], for a column the row has a text for.
Field(header, fields, col) == fields[ColumnIndex(header, col)]

\* Whether lines 367-372 run through for a row: every column is a key of
\* the row and int() accepts both instance counts (int(None) raises
\* TypeError).
RowParses(header, fields) ==
    /\ \A i \in 1..Len(fieldnames) : HasColumn(header, fieldnames[i])
    /\ HasField(header, fields, "min_instances")
    /\ IntOk(Field(header, fields, "min_instances"))
    /\ HasField(header, fields, "max_instances")
    /\ IntOk(Field(header, fields, "max_instances"))

\* The row save writes for a service from its fetched record.
SnapshotRow_SwapsBounds(service, details) ==
    << service.folder, service.name, service.type,
       Get(details, "configuredState", "STOPPED"),
       Str(Get(details, "maxInstancesPerNode", 1)),
       Str(Get(details, "minInstancesPerNode", 1)) >>

SnapshotRow(service, details) ==
    << service.folder, service.name, service.type,
       Get(details, "configuredState", "STOPPED"),
       Str(Get(details, "minInstancesPerNode", 1)),
       Str(Get(details, "maxInstancesPerNode", 1)) >>

\* Rows a snapshot given to restore is made of: three well-formed rows of
\* non-excluded services (configured_state in upper, mixed and lower case),
\* one naming an excluded service, one with a non-integer min_instances, one
\* that ends before max_instances.
SnapshotRows ==
    { <<"", "Parcels", "MapServer", "STARTED", Str(1), Str(2)>>,
      <<"", "Roads", "MapServer", "Stopped", Str(0), Str(1)>>,
      <<"Maps", "Parcels", "FeatureServer", "started", Str(2), Str(2)>>,
      <<"Hosted", "Roads", "FeatureServer", "started", Str(1), Str(1)>>,
      <<"Maps", "Parcels", "FeatureServer", "started", <<"x">>, Str(1)>>,
      <<"", "Roads", "MapServer", "STARTED", Str(3)>> }

\* Headers of a snapshot given to restore: the one save writes, and one
\* without the max_instances column.
SnapshotHeaders == {fieldnames, SubSeq(fieldnames, 1, Len(fieldnames) - 1)}

SnapshotFiles ==
    {[header |-> h, rows |-> r] : h \in SnapshotHeaders, r \in SeqsUpTo(SnapshotRows, MaxRows)}

\* The file at the output path before save runs.
OldFile ==
    [header |-> fieldnames,
     rows |-> << <<"Hosted", "Roads", "FeatureServer", "STARTED", Str(1), Str(1)>> >>]

(***************************************************************************)
(* What the server reports and does.                                       *)
(***************************************************************************)
\* result['services'] of the root listing, in the server's order.
RootServices(cat) == SelectSeq(cat, LAMBDA s : s.folder = "")

\* result['folders'] of the root listing: the folders, each once, in the
\* order the server holds them.
RECURSIVE Folders(_)
Folders(cat) ==
    IF cat = <<>> THEN <<>>
    ELSE LET before == Folders(SubSeq(cat, 1, Len(cat) - 1))
             f == cat[Len(cat)].folder
         IN IF f = "" \/ f \in Range(before) THEN before ELSE Append(before, f)

FolderServices_SkipsExcluded(cat, folder) ==
    IF Excluded(folder) THEN <<>> ELSE SelectSeq(cat, LAMBDA s : s.folder = folder)

\* folder_result['services'] of a folder's listing.
FolderServices(cat, folder) == SelectSeq(cat, LAMBDA s : s.folder = folder)

\* d with d[key] = value, the key added when d lacks it.
SetKey(d, key, value) == [k \in DOMAIN d \cup {key} |-> IF k = key THEN value ELSE d[k]]

\* The server's record after a successful edit: the posted document, with the
\* server-managed fields as the server holds them.
ServerEdit(old, payload) ==
    [k \in (DOMAIN payload \ ServerManagedKeys) \cup (DOMAIN old \cap ServerManagedKeys) |->
        IF k \in ServerManagedKeys THEN old[k] ELSE payload[k]]

(***************************************************************************)
(* State.                                                                  *)
(***************************************************************************)
VARIABLES
    pc,                 \* where the process is
    command,            \* args.command
    keep_service,       \* args.keep_service
    token,              \* self.token
    exitCode,           \* what main returned; -1 while the process runs
    wfResult,           \* what the workflow returned: "none", "True", "False"
    catalog,            \* the server's services, in the order it reports them
    server,             \* the server's configuration record of each service
    server0,            \* the server's records when the first run began
    csvfile,            \* the snapshot file: its header and rows
    fileWriter,         \* who wrote csvfile: "input" (given) or "save"
    services,           \* the list get_services builds
    folderIdx,          \* get_services' place in result['folders']
    idx,                \* the workflow loop's place in services or in the rows
    usi,                \* update_service_instances' arguments and fetched record
    kept_service_found,
    restored_count,
    skipped_count,
    calls,              \* the requests sent, in order, each with its outcome
    visited,            \* the candidates the workflow loop has taken up, in order
    ioFailed,           \* the snapshot file could not be opened
    pending,            \* the commands of the runs still to come
    external            \* the changes another client made to the server's records

vars ==
    <<pc, command, keep_service, token, exitCode, wfResult, catalog, server, server0,
      csvfile, fileWriter, services, folderIdx, idx, usi, kept_service_found,
      restored_count, skipped_count, calls, visited, ioFailed, pending, external>>

\* The server and the process's arguments, and what other clients did, which
\* no step of a workflow changes.
fixed == <<command, keep_service, catalog, server0, pending, external>>

\* The state of a process that has just been started.
ProcessStarts ==
    /\ pc = "main"
    /\ token = None
    /\ exitCode = -1
    /\ wfResult = "none"
    /\ services = <<>>
    /\ folderIdx = 1
    /\ idx = 1
    /\ usi = <<>>
    /\ kept_service_found = FALSE
    /\ restored_count = 0
    /\ skipped_count = 0
    /\ calls = <<>>
    /\ visited = <<>>
    /\ ioFailed = FALSE

\* A server holding the services of cat, in that order, with the records of
\* profile p.
ServerHolds(cat, p) ==
    /\ catalog = cat
    /\ server = [id \in Range(cat) |-> ProfileRecord(p, id)]
    /\ server0 = server
    /\ external = <<>>

\* One run of save or stop against any server, or of restore on any snapshot
\* file.  restore never lists the services, so one order of each set of
\* services stands for all.
Init ==
    /\ ProcessStarts
    /\ pending = <<>>
    /\ fileWriter = "input"
    /\ \E cat \in DistinctSeqs(UniverseSet, MaxServices), p \in Profiles :
          /\ ServerHolds(cat, p)
          /\ \/ command = "save" /\ keep_service = None /\ csvfile = OldFile
             \/ command = "stop" /\ keep_service \in KeeperNames /\ csvfile = OldFile
             \/ /\ command = "restore"
                /\ keep_service = None
                /\ InUniverseOrder(cat)
                /\ csvfile \in SnapshotFiles

(***************************************************************************)
(* Requests (_make_request).                                               *)
(***************************************************************************)
TokenTruthy_Always(t) == TRUE

\* `if not self.token` is false: None and the empty string are no token.
TokenTruthy(t) == t \notin {None, ""}

\* How a request for something may end: it is not sent without a token; it
\* succeeds or fails when the server holds what it names, and fails when it
\* does not.
Replies(exists) ==
    IF ~TokenTruthy(token) THEN {"unsent"}
    ELSE IF exists THEN {"ok", "fail"}
    ELSE {"fail"}

\* calls after a request: a request that was sent, with the token it carried
\* and the position of the workflow's loop when it was sent.
LogAfter(kind, target, payload, reply) ==
    IF reply = "unsent" THEN calls
    ELSE Append(calls, [kind |-> kind, target |-> target, token |-> token,
                        ok |-> reply = "ok", payload |-> payload, at |-> idx])

\* The workflow returns r and main returns 0 if success else 1.
Finish(r) ==
    /\ wfResult' = (IF r THEN "True" ELSE "False")
    /\ exitCode' = (IF r THEN 0 ELSE 1)
    /\ pc' = "done"

(***************************************************************************)
(* main and authenticate.                                                  *)
(***************************************************************************)
AuthReplies == {"token", "empty_token", "error", "transport"}

\* authenticate returns True when the response has a token field.
AuthenticateReturns(reply) == reply \in {"token", "empty_token"}

Authenticate ==
    /\ pc = "main"
    /\ \E reply \in AuthReplies :
          /\ token' = (CASE reply = "token" -> "tok"
                         [] reply = "empty_token" -> ""
                         [] OTHER -> token)
          /\ IF AuthenticateReturns(reply)
             THEN /\ pc' = (IF command = "restore" THEN "restore_open" ELSE "list_root")
                  /\ UNCHANGED exitCode
             ELSE /\ pc' = "done"
                  /\ exitCode' = 1
    /\ UNCHANGED <<fixed, wfResult, server, csvfile, fileWriter, services, folderIdx, idx,
                   usi, kept_service_found, restored_count, skipped_count, calls, visited,
                   ioFailed>>

(***************************************************************************)
(* get_services.                                                           *)
(***************************************************************************)
\* The caller's `if not services` after get_services returned list.
AfterListing(list) ==
    /\ services' = list
    /\ IF list = <<>>
       THEN Finish(FALSE)
       ELSE /\ pc' = (IF command = "save" THEN "save_open" ELSE "stop_loop")
            /\ UNCHANGED <<wfResult, exitCode>>

ListRoot ==
    /\ pc = "list_root"
    /\ \E reply \in Replies(TRUE) :
          /\ calls' = LogAfter("list", Service("", "", ""), NoResult, reply)
          /\ IF reply = "ok" /\ Folders(catalog) # <<>>
             THEN /\ services' = RootServices(catalog)
                  /\ pc' = "list_folder"
                  /\ UNCHANGED <<wfResult, exitCode>>
             ELSE AfterListing(IF reply = "ok" THEN RootServices(catalog) ELSE <<>>)
    /\ UNCHANGED <<fixed, token, server, csvfile, fileWriter, folderIdx, idx, usi,
                   kept_service_found, restored_count, skipped_count, visited, ioFailed>>

ListFolder ==
    /\ pc = "list_folder"
    /\ LET folder == Folders(catalog)[folderIdx]
       IN \E reply \in Replies(TRUE) :
             LET found == IF reply = "ok"
                          THEN services \o FolderServices(catalog, folder)
                          ELSE services
             IN /\ calls' = LogAfter("list", Service(folder, "", ""), NoResult, reply)
                /\ IF folderIdx < Len(Folders(catalog))
                   THEN /\ services' = found
                        /\ folderIdx' = folderIdx + 1
                        /\ UNCHANGED <<pc, wfResult, exitCode>>
                   ELSE /\ AfterListing(found)
                        /\ UNCHANGED folderIdx
    /\ UNCHANGED <<fixed, token, server, csvfile, fileWriter, idx, usi,
                   kept_service_found, restored_count, skipped_count, visited, ioFailed>>

(***************************************************************************)
(* update_service_instances: GET the record, then POST the edited one.     *)
(***************************************************************************)
readonly_props_NoExtensions == {"status", "configuredState", "realTimeState"}

\* readonly_props
readonly_props == {"status", "configuredState", "realTimeState", "extensions"}

EditPayload_OnlyBounds(details, min, max) ==
    [k \in {"minInstancesPerNode", "maxInstancesPerNode"} |->
        IF k = "minInstancesPerNode" THEN min ELSE max]

EditPayload_KeepsFetchedMax(details, min, max) ==
    LET set == SetKey(details, "minInstancesPerNode", min)
    IN [k \in DOMAIN set \ {"status", "configuredState", "realTimeState", "extensions"} |->
           set[k]]

\* service_details as json.dumps receives it: the fetched record with the
\* two instance counts set and the read-only properties popped.
EditPayload(details, min, max) ==
    LET set == SetKey(SetKey(details, "minInstancesPerNode", min), "maxInstancesPerNode", max)
    IN [k \in DOMAIN set \ readonly_props |-> set[k]]

\* update_service_instances returns ok to its caller: stop_all_except_one
\* goes on to start the keeper whatever it returned; restore goes on to the
\* row's state when it returned True and to the next row otherwise.
UsiReturns_SkipsStartOnFailure(ok) ==
    IF ok
    THEN IF command = "stop"
         THEN pc' = "keeper_start" /\ UNCHANGED idx
         ELSE pc' = "restore_state" /\ UNCHANGED idx
    ELSE IF command = "stop"
         THEN pc' = "stop_loop" /\ idx' = idx + 1
         ELSE pc' = "restore_loop" /\ idx' = idx + 1

UsiReturns(ok) ==
    IF command = "stop"
    THEN pc' = "keeper_start" /\ UNCHANGED idx
    ELSE IF ok
    THEN pc' = "restore_state" /\ UNCHANGED idx
    ELSE pc' = "restore_loop" /\ idx' = idx + 1

FetchFailed_Never(service_details) == FALSE

\* if not service_details: the fetch gave nothing to edit.
FetchFailed(service_details) == ~Truthy(service_details)

UsiGet ==
    /\ pc = "usi_get"
    /\ \E reply \in Replies(usi.id \in DOMAIN server) :
          LET service_details == IF reply = "ok" THEN server[usi.id] ELSE NoResult
          IN /\ calls' = LogAfter("detail", usi.id, NoResult, reply)
             /\ IF FetchFailed(service_details)
                THEN /\ UsiReturns(FALSE)
                     /\ UNCHANGED usi
                ELSE /\ usi' = [usi EXCEPT !.details = service_details]
                     /\ pc' = "usi_edit"
                     /\ UNCHANGED idx
    /\ UNCHANGED <<fixed, token, exitCode, wfResult, server, csvfile, fileWriter, services,
                   folderIdx, kept_service_found, restored_count, skipped_count, visited,
                   ioFailed>>

UsiEdit ==
    /\ pc = "usi_edit"
    /\ LET payload == EditPayload(usi.details, usi.min, usi.max)
       IN \E reply \in Replies(usi.id \in DOMAIN server) :
             /\ calls' = LogAfter("edit", usi.id, payload, reply)
             /\ server' = (IF reply = "ok"
                           THEN [server EXCEPT ![usi.id] = ServerEdit(@, payload)]
                           ELSE server)
             /\ UsiReturns(reply = "ok")
    /\ UNCHANGED <<fixed, token, exitCode, wfResult, csvfile, fileWriter, services,
                   folderIdx, usi, kept_service_found, restored_count, skipped_count, visited,
                   ioFailed>>

\* The server's records after a start or stop request that ended with reply.
ServerAfter(kind, id, reply) ==
    IF reply = "ok"
    THEN [server EXCEPT ![id] = SetKey(@, "configuredState",
                                       IF kind = "start" THEN "STARTED" ELSE "STOPPED")]
    ELSE server

(***************************************************************************)
(* save_services_state.                                                    *)
(***************************************************************************)
\* open(output_file, 'w') and writer.writeheader(): the file is emptied and
\* gets its header, or open raises and save returns False.
SaveOpen ==
    /\ pc = "save_open"
    /\ \E opened \in BOOLEAN :
          IF opened
          THEN /\ csvfile' = [header |-> fieldnames, rows |-> <<>>]
               /\ fileWriter' = "save"
               /\ pc' = "save_loop"
               /\ UNCHANGED <<wfResult, exitCode, ioFailed>>
          ELSE /\ ioFailed' = TRUE
               /\ Finish(FALSE)
               /\ UNCHANGED <<csvfile, fileWriter>>
    /\ UNCHANGED <<fixed, token, server, services, folderIdx, idx, usi, kept_service_found,
                   restored_count, skipped_count, calls, visited>>

SaveReturns_NeedsEveryRow(rows, candidates) == Len(rows) = Len(candidates)

\* `return True` once the loop has ended, whatever rows were written.
SaveReturns(rows, candidates) == TRUE

\* One pass of save's loop over services, or its end.
SaveLoop ==
    /\ pc = "save_loop"
    /\ IF idx > Len(services)
       THEN /\ Finish(SaveReturns(csvfile.rows, services))
            /\ UNCHANGED <<idx, visited, skipped_count, calls, csvfile>>
       ELSE LET service == services[idx]
            IN /\ idx' = idx + 1
               /\ visited' = Append(visited, idx)
               /\ UNCHANGED <<pc, wfResult, exitCode>>
               /\ IF Excluded(service.folder)
                  THEN /\ skipped_count' = skipped_count + 1
                       /\ UNCHANGED <<calls, csvfile>>
                  ELSE \E reply \in Replies(service \in DOMAIN server) :
                          /\ calls' = LogAfter("detail", service, NoResult, reply)
                          /\ csvfile' =
                                (IF reply = "ok" /\ Truthy(server[service])
                                 THEN [csvfile EXCEPT !.rows =
                                          Append(@, SnapshotRow(service, server[service]))]
                                 ELSE csvfile)
                          /\ UNCHANGED skipped_count
    /\ UNCHANGED <<fixed, token, server, fileWriter, services, folderIdx, usi,
                   kept_service_found, restored_count, ioFailed>>

(***************************************************************************)
(* stop_all_except_one.                                                    *)
(***************************************************************************)
IsKeeper_AnyName(service, keep) == TRUE

\* service['name'] == keep_service
IsKeeper(service, keep) == service.name = keep

\* The instance counts the keeper is set to.
KeeperBounds_Two == <<1, 2>>

KeeperBounds == <<1, 1>>

StopReturns_Always(found) == TRUE

\* `if not kept_service_found: return False`, else True.
StopReturns(found) == found

\* One pass of stop's loop over services up to its first request, or its end.
StopLoop ==
    /\ pc = "stop_loop"
    /\ IF idx > Len(services)
       THEN /\ Finish(StopReturns(kept_service_found))
            /\ UNCHANGED <<idx, visited, skipped_count, calls, server, usi>>
       ELSE LET service == services[idx]
            IN /\ visited' = Append(visited, idx)
               /\ UNCHANGED <<wfResult, exitCode>>
               /\ IF Excluded(service.folder)
                  THEN /\ skipped_count' = skipped_count + 1
                       /\ idx' = idx + 1
                       /\ UNCHANGED <<pc, calls, server, usi>>
                  ELSE IF IsKeeper(service, keep_service)
                  THEN /\ usi' = [id |-> service, min |-> KeeperBounds[1],
                                  max |-> KeeperBounds[2], details |-> NoResult]
                       /\ pc' = "usi_get"
                       /\ UNCHANGED <<idx, skipped_count, calls, server>>
                  ELSE \E reply \in Replies(service \in DOMAIN server) :
                          /\ calls' = LogAfter("stop", service, NoResult, reply)
                          /\ server' = ServerAfter("stop", service, reply)
                          /\ idx' = idx + 1
                          /\ UNCHANGED <<pc, skipped_count, usi>>
    /\ UNCHANGED <<fixed, token, csvfile, fileWriter, services, folderIdx,
                   kept_service_found, restored_count, ioFailed>>

\* The keeper's start_service and `kept_service_found = True`.
KeeperStart ==
    /\ pc = "keeper_start"
    /\ \E reply \in Replies(usi.id \in DOMAIN server) :
          /\ calls' = LogAfter("start", usi.id, NoResult, reply)
          /\ server' = ServerAfter("start", usi.id, reply)
    /\ kept_service_found' = TRUE
    /\ idx' = idx + 1
    /\ pc' = "stop_loop"
    /\ UNCHANGED <<fixed, token, exitCode, wfResult, csvfile, fileWriter, services,
                   folderIdx, usi, restored_count, skipped_count, visited, ioFailed>>

(***************************************************************************)
(* restore_services_state.                                                 *)
(***************************************************************************)
\* open(input_file, 'r') and csv.DictReader: the file is read, or open raises
\* and restore returns False.
RestoreOpen ==
    /\ pc = "restore_open"
    /\ \E opened \in BOOLEAN :
          IF opened
          THEN /\ pc' = "restore_loop"
               /\ UNCHANGED <<wfResult, exitCode, ioFailed>>
          ELSE /\ ioFailed' = TRUE
               /\ Finish(FALSE)
    /\ UNCHANGED <<fixed, token, server, csvfile, fileWriter, services, folderIdx, idx, usi,
                   kept_service_found, restored_count, skipped_count, calls, visited>>

\* The row's service.
RowService(header, fields) ==
    Service(Field(header, fields, "folder"), Field(header, fields, "service_name"),
            Field(header, fields, "service_type"))

\* One pass of restore's loop over the rows up to its first request, or its
\* end.  A row lines 367-372 raise on ends the loop and the workflow: the
\* exception is caught outside the loop, at line 413.
RestoreLoop ==
    /\ pc = "restore_loop"
    /\ IF idx > Len(csvfile.rows)
       THEN /\ Finish(TRUE)
            /\ UNCHANGED <<idx, visited, skipped_count, usi>>
       ELSE LET header == csvfile.header
                fields == csvfile.rows[idx]
            IN IF ~RowParses(header, fields)
               THEN /\ Finish(FALSE)
                    /\ UNCHANGED <<idx, visited, skipped_count, usi>>
               ELSE /\ visited' = Append(visited, idx)
                    /\ UNCHANGED <<wfResult, exitCode>>
                    /\ IF Excluded(Field(header, fields, "folder"))
                       THEN /\ skipped_count' = skipped_count + 1
                            /\ idx' = idx + 1
                            /\ UNCHANGED <<pc, usi>>
                       ELSE /\ usi' = [id |-> RowService(header, fields),
                                       min |-> ParseInt(Field(header, fields, "min_instances")),
                                       max |-> ParseInt(Field(header, fields, "max_instances")),
                                       details |-> NoResult]
                            /\ pc' = "usi_get"
                            /\ UNCHANGED <<idx, skipped_count>>
    /\ UNCHANGED <<fixed, token, server, csvfile, fileWriter, services, folderIdx,
                   kept_service_found, restored_count, calls, ioFailed>>

RestoreStarts_Never(configured_state) == FALSE

RestoreStarts_CaseSensitive(configured_state) == configured_state = "STARTED"

\* configured_state.upper() == 'STARTED'
RestoreStarts(configured_state) == Upper(configured_state) = "STARTED"

RestoredAfter_Always(count, success) == count + 1

\* restored_count after the row's start or stop: if success: restored_count += 1
RestoredAfter(count, success) == IF success THEN count + 1 ELSE count

\* The row's start_service or stop_service.
RestoreState ==
    /\ pc = "restore_state"
    /\ LET kind == IF RestoreStarts(Field(csvfile.header, csvfile.rows[idx], "configured_state"))
                   THEN "start" ELSE "stop"
       IN \E reply \in Replies(usi.id \in DOMAIN server) :
             /\ calls' = LogAfter(kind, usi.id, NoResult, reply)
             /\ server' = ServerAfter(kind, usi.id, reply)
             /\ restored_count' = RestoredAfter(restored_count, reply = "ok")
    /\ idx' = idx + 1
    /\ pc' = "restore_loop"
    /\ UNCHANGED <<fixed, token, exitCode, wfResult, csvfile, fileWriter, services,
                   folderIdx, usi, kept_service_found, skipped_count, visited, ioFailed>>

(***************************************************************************)
(* Specifications.                                                         *)
(***************************************************************************)
Next ==
    \/ Authenticate
    \/ ListRoot
    \/ ListFolder
    \/ SaveOpen
    \/ SaveLoop
    \/ StopLoop
    \/ UsiGet
    \/ UsiEdit
    \/ KeeperStart
    \/ RestoreOpen
    \/ RestoreLoop
    \/ RestoreState

Spec == Init /\ [][Next]_vars

\* A run has ended and the next command of the plan starts as a new process:
\* the server and the snapshot file are as the run left them.
NextRun ==
    /\ pc = "done"
    /\ pending # <<>>
    /\ command' = Head(pending)
    /\ pending' = Tail(pending)
    /\ pc' = "main"
    /\ token' = None
    /\ exitCode' = -1
    /\ wfResult' = "none"
    /\ services' = <<>>
    /\ folderIdx' = 1
    /\ idx' = 1
    /\ usi' = <<>>
    /\ kept_service_found' = FALSE
    /\ restored_count' = 0
    /\ skipped_count' = 0
    /\ calls' = <<>>
    /\ visited' = <<>>
    /\ ioFailed' = FALSE
    /\ UNCHANGED <<keep_service, catalog, server, server0, csvfile, fileWriter, external>>

\* A snapshot at the path before save runs that restore would act on.
StaleFile ==
    [header |-> fieldnames,
     rows |-> << <<"", "Parcels", "MapServer", "Stopped", Str(1), Str(2)>>,
                 <<"", "Roads", "MapServer", "STARTED", Str(1), Str(2)>> >>]

\* save against any server, then restore of the same path.
InitRoundTrip ==
    /\ ProcessStarts
    /\ command = "save"
    /\ pending = <<"restore">>
    /\ keep_service = None
    /\ fileWriter = "input"
    /\ csvfile \in {OldFile, StaleFile}
    /\ \E cat \in DistinctSeqs(UniverseSet, MaxServices), p \in Profiles : ServerHolds(cat, p)

NextRoundTrip ==
    \/ Authenticate
    \/ ListRoot
    \/ ListFolder
    \/ SaveOpen
    \/ SaveLoop
    \/ UsiGet
    \/ UsiEdit
    \/ RestoreOpen
    \/ RestoreLoop
    \/ RestoreState
    \/ NextRun

SpecRoundTrip == InitRoundTrip /\ [][NextRoundTrip]_vars

\* The most changes another client makes during one run.
MaxExternal == 1

\* The changes another client makes: a new description, a new maximum.
ExternalChanges ==
    { [key |-> "description", value |-> "changed"],
      [key |-> "maxInstancesPerNode", value |-> 7] }

\* Another client edits the record of the service being updated, after
\* update_service_instances fetched it and before it posts its edit.
ExternalChange ==
    /\ pc = "usi_edit"
    /\ Len(external) < MaxExternal
    /\ usi.id \in DOMAIN server
    /\ \E change \in ExternalChanges :
          /\ server' = [server EXCEPT ![usi.id] = SetKey(@, change.key, change.value)]
          /\ external' = Append(external, [at |-> idx, id |-> usi.id,
                                            key |-> change.key, value |-> change.value])
    /\ UNCHANGED <<pc, command, keep_service, token, exitCode, wfResult, catalog, server0,
                   csvfile, fileWriter, services, folderIdx, idx, usi, kept_service_found,
                   restored_count, skipped_count, calls, visited, ioFailed, pending>>

\* One run of stop against any server while another client edits records.
InitExternal ==
    /\ ProcessStarts
    /\ pending = <<>>
    /\ fileWriter = "input"
    /\ command = "stop"
    /\ keep_service \in KeeperNames
    /\ csvfile = OldFile
    /\ \E cat \in DistinctSeqs(UniverseSet, MaxServices), p \in Profiles : ServerHolds(cat, p)

NextExternal ==
    \/ Authenticate
    \/ ListRoot
    \/ ListFolder
    \/ StopLoop
    \/ UsiGet
    \/ UsiEdit
    \/ KeeperStart
    \/ ExternalChange

SpecExternal == InitExternal /\ [][NextExternal]_vars

(***************************************************************************)
(* Properties.                                                             *)
(***************************************************************************)
Calls == Range(calls)

\* The folders the workflows must leave alone.
InfrastructureFolders == {"Hosted", "System", "Utilities"}

\* The workflow of command cmd has returned.
Returned(cmd) == command = cmd /\ pc = "done" /\ wfResult # "none"

\* The service the i-th row of the snapshot file names.
RowTarget(i) == Service(csvfile.rows[i][1], csvfile.rows[i][2], csvfile.rows[i][3])

\* C1: a service in Hosted, System or Utilities never has a row in the file
\* save wrote and never receives an edit, start or stop request, in any
\* workflow and whatever requests fail, also when a snapshot row names it.
C1_ExcludedNeverTouched ==
    /\ fileWriter = "save" =>
          \A i \in 1..Len(csvfile.rows) : csvfile.rows[i][1] \notin InfrastructureFolders
    /\ \A c \in Calls :
          c.kind \in {"edit", "start", "stop"} => c.target.folder \notin InfrastructureFolders

\* restore has ended after skipping a row that names an excluded service
\* and starting or stopping the service of another row.
C1_Witness ==
    /\ Returned("restore")
    /\ \E i \in 1..Len(csvfile.rows) : csvfile.rows[i][1] \in InfrastructureFolders
    /\ skipped_count > 0
    /\ \E c \in Calls : c.kind \in {"start", "stop"} /\ c.ok

\* The rows of the snapshot file that lines 367-372 accept.
WellFormedRows == {i \in 1..Len(csvfile.rows) : RowParses(csvfile.header, csvfile.rows[i])}

MalformedRows == (1..Len(csvfile.rows)) \ WellFormedRows

\* C2: when restore has read a snapshot with exactly one malformed row, it
\* has taken up every well-formed row, those after the malformed one
\* included.
C2_MalformedRowIsolated ==
    (Returned("restore") /\ ~ioFailed /\ Cardinality(MalformedRows) = 1)
        => Range(visited) = WellFormedRows

\* C3 as claimed: stop_all_except_one returns False exactly when no
\* discovered service has the keeper's name.
C3_FailsIffNoDiscoveredKeeper ==
    Returned("stop") =>
        (wfResult = "False" <=> ~\E i \in 1..Len(services) : services[i].name = keep_service)

\* C3 as amended: stop_all_except_one returns False exactly when no
\* discovered service outside the excluded folders has the keeper's name,
\* whatever the edit, start and stop requests returned.
C3_FailsIffNoEligibleKeeper ==
    Returned("stop") =>
        (wfResult = "False" <=>
            ~\E i \in 1..Len(services) :
                /\ services[i].folder \notin InfrastructureFolders
                /\ services[i].name = keep_service)

\* stop_all_except_one has returned True although the keeper's start request
\* and another service's stop request failed.
C3_Witness ==
    /\ Returned("stop")
    /\ wfResult = "True"
    /\ \E c \in Calls : c.kind = "start" /\ ~c.ok
    /\ \E c \in Calls : c.kind = "stop" /\ ~c.ok

\* The three fields of a record the snapshot keeps.
SavedFields == {"configuredState", "minInstancesPerNode", "maxInstancesPerNode"}

\* C4: once save has written the snapshot and while restore runs on it, and
\* when restore has ended, every non-excluded service whose record carries
\* configuredState, minInstancesPerNode and maxInstancesPerNode (as section
\* 3 of the specification says every record does) has these three as they
\* were before save.
C4_RoundTripKeepsState ==
    fileWriter = "save" =>
        \A id \in DOMAIN server :
            (id.folder \notin InfrastructureFolders /\ SavedFields \subseteq DOMAIN server0[id])
                => /\ SavedFields \subseteq DOMAIN server[id]
                   /\ \A k \in SavedFields : server[id][k] = server0[id][k]

\* restore has ended on the snapshot save wrote, after a successful edit and
\* a successful start of one service and a successful stop of another.
C4_Witness ==
    /\ Returned("restore")
    /\ pending = <<>>
    /\ fileWriter = "save"
    /\ \E c \in Calls : c.kind = "edit" /\ c.ok
    /\ \E c \in Calls : c.kind = "start" /\ c.ok
    /\ \E c \in Calls : c.kind = "stop" /\ c.ok

\* C5: when stop_all_except_one has ended and every request succeeded, each
\* non-excluded service named as the keeper is STARTED with instance counts
\* (1, 1) and every other non-excluded service is STOPPED; the statement
\* does not mention the order of the services, so it holds for every order
\* the server reports them in.
C5_KeeperStartedOthersStopped ==
    (Returned("stop") /\ calls # <<>> /\ \A c \in Calls : c.ok) =>
        \A id \in DOMAIN server :
            id.folder \notin InfrastructureFolders =>
                IF id.name = keep_service
                THEN /\ {"configuredState", "minInstancesPerNode", "maxInstancesPerNode"}
                            \subseteq DOMAIN server[id]
                     /\ server[id]["configuredState"] = "STARTED"
                     /\ server[id]["minInstancesPerNode"] = 1
                     /\ server[id]["maxInstancesPerNode"] = 1
                ELSE /\ "configuredState" \in DOMAIN server[id]
                     /\ server[id]["configuredState"] = "STOPPED"

\* stop_all_except_one has ended with every request successful, for a keeper
\* that is not the first service discovered and was not STARTED with (1, 1),
\* beside another service it had to stop.
C5_Witness ==
    /\ Returned("stop")
    /\ wfResult = "True"
    /\ \A c \in Calls : c.ok
    /\ Len(services) > 1
    /\ services[1].name # keep_service
    /\ services[1].folder \notin InfrastructureFolders
    /\ \E id \in DOMAIN server :
          /\ id.name = keep_service
          /\ id.folder \notin InfrastructureFolders
          /\ server0[id] # server[id]

\* The listing requests were sent and all succeeded.
EnumerationSucceeded ==
    /\ \E c \in Calls : c.kind = "list"
    /\ \A c \in Calls : c.kind = "list" => c.ok

\* The number of requests of a kind sent for a service.
CountCalls(kind, id) ==
    Cardinality({i \in 1..Len(calls) : calls[i].kind = kind /\ calls[i].target = id})

\* A service whose detail fetch failed has no row in the file save writes
\* and was fetched once.
FailedFetchLeavesNoRow ==
    (command = "save" /\ fileWriter = "save") =>
        \A c \in Calls :
            (c.kind = "detail" /\ ~c.ok) =>
                /\ CountCalls("detail", c.target) = 1
                /\ \A i \in 1..Len(csvfile.rows) : RowTarget(i) # c.target

FetchedServices ==
    SelectSeq(services,
              LAMBDA s : /\ s.folder \notin InfrastructureFolders
                         /\ \E c \in Calls : c.kind = "detail" /\ c.target = s /\ c.ok)

\* Where the server holds a service: rank of its folder among the folders it
\* reports (0 for the root), then its place in the catalog.
Place(id) == CHOOSE i \in 1..Len(catalog) : catalog[i] = id

FolderRank(id) ==
    IF id.folder = "" THEN 0
    ELSE CHOOSE i \in 1..Len(Folders(catalog)) : Folders(catalog)[i] = id.folder

DiscoveredBefore(a, b) ==
    \/ FolderRank(a) < FolderRank(b)
    \/ FolderRank(a) = FolderRank(b) /\ Place(a) < Place(b)

\* C7: when save has returned True the snapshot holds one row for each
\* non-excluded discovered service whose detail fetch succeeded and no other
\* row, in discovery order (root services first, then the folders in the
\* server's order), each row with the service's folder, name and type and
\* with the configuredState and the instance counts of the server's record
\* (STOPPED and 1 for a field the record lacks), the counts as decimal text.
C7_SnapshotIsDiscoveredState ==
    (Returned("save") /\ wfResult = "True") =>
        /\ csvfile.header = fieldnames
        /\ Len(csvfile.rows) = Len(FetchedServices)
        /\ \A i, j \in 1..Len(services) : i < j => DiscoveredBefore(services[i], services[j])
        /\ \A i \in 1..Len(csvfile.rows) :
              LET row == csvfile.rows[i]
                  record == server[FetchedServices[i]]
              IN /\ Len(row) = Len(fieldnames)
                 /\ RowTarget(i) = FetchedServices[i]
                 /\ row[4] = (IF "configuredState" \in DOMAIN record
                              THEN record["configuredState"] ELSE "STOPPED")
                 /\ IntOk(row[5]) /\ IntOk(row[6])
                 /\ DigitsValue(row[5]) = (IF "minInstancesPerNode" \in DOMAIN record
                                           THEN record["minInstancesPerNode"] ELSE 1)
                 /\ DigitsValue(row[6]) = (IF "maxInstancesPerNode" \in DOMAIN record
                                           THEN record["maxInstancesPerNode"] ELSE 1)

\* save has returned True with two rows after skipping an excluded service,
\* or with a row after a failed detail fetch, from a server with a folder.
C7_Witness ==
    /\ Returned("save")
    /\ wfResult = "True"
    /\ Len(csvfile.rows) > 0
    /\ skipped_count > 0
    /\ \E c \in Calls : c.kind = "detail" /\ ~c.ok
    /\ \E i \in 1..Len(csvfile.rows) : csvfile.rows[i][1] = "Maps"

\* C8: no edit request carries status, realTimeState, extensions or
\* configuredState, whatever the fetched record held.
C8_PayloadOmitsReadOnly ==
    \A c \in Calls :
        c.kind = "edit" =>
            DOMAIN c.payload \cap {"status", "realTimeState", "extensions", "configuredState"} = {}

\* An edit request was sent for a service whose record holds the four
\* fields, and one for a service whose record holds none of them.
C8_Witness ==
    /\ \E c \in Calls :
          /\ c.kind = "edit"
          /\ {"status", "realTimeState", "extensions", "configuredState"}
                \subseteq DOMAIN server0[c.target]
    /\ \E c \in Calls :
          /\ c.kind = "edit"
          /\ DOMAIN server0[c.target] \cap {"status", "realTimeState", "extensions"} = {}

\* C9: restore returns False only when the snapshot file could not be
\* opened.
C9_FailsOnlyOnIO ==
    (Returned("restore") /\ wfResult = "False") => ioFailed

\* C10: when authenticate has failed the process has ended with exit code 1
\* without starting a workflow or sending a request, and every request that
\* was sent carried a session token.
C10_NoRequestWithoutSession ==
    /\ (pc # "main" /\ token = None) =>
          /\ pc = "done"
          /\ exitCode = 1
          /\ wfResult = "none"
          /\ calls = <<>>
          /\ visited = <<>>
    /\ \A c \in Calls : c.token \notin {None, ""}

\* authenticate has failed and the process has ended.
C10_Witness ==
    /\ pc = "done"
    /\ token = None
    /\ exitCode = 1

\* The requests sent for the i-th candidate of the workflow's loop: those
\* sent while the loop was there, the listing requests of get_services apart.
CallsAt(i) ==
    LET AtI(c) == c.at = i /\ c.kind # "list"
    IN SelectSeq(calls, AtI)

\* C11: in restore, the requests of a row that names a non-excluded service
\* go to that service; a start or stop request is the row's last request and
\* comes right after a successful edit request, so the bounds update comes
\* first, a failed update is followed by neither, and there is at most one;
\* a finished row whose edit succeeded has one; it is a start when
\* configured_state is STARTED in any case and a stop for any other value.
C11_UpdateThenOneStateChange ==
    command = "restore" =>
        \A i \in Range(visited) :
            LET r == CallsAt(i)
                state == Field(csvfile.header, csvfile.rows[i], "configured_state")
                n == Len(r)
            IN /\ \A k \in 1..n : r[k].target = RowTarget(i)
               /\ \A k \in 1..n :
                     r[k].kind \in {"start", "stop"} =>
                        /\ k = n
                        /\ k > 1
                        /\ r[k - 1].kind = "edit"
                        /\ r[k - 1].ok
                        /\ r[k].kind = (IF state \in {"STARTED", "Started", "started"}
                                        THEN "start" ELSE "stop")
               /\ (i < idx /\ n > 0 /\ r[n].kind = "edit") => ~r[n].ok

\* restore has ended after starting the service of a row whose
\* configured_state is in lower case and leaving alone the service of a row
\* whose edit request failed.
C11_Witness ==
    /\ Returned("restore")
    /\ \E i \in Range(visited) :
          /\ Field(csvfile.header, csvfile.rows[i], "configured_state") = "started"
          /\ \E c \in Range(CallsAt(i)) : c.kind = "start"
    /\ \E i \in Range(visited) :
          /\ \E c \in Range(CallsAt(i)) : c.kind = "edit" /\ ~c.ok
          /\ ~\E c \in Range(CallsAt(i)) : c.kind \in {"start", "stop"}

\* The candidates of stop_all_except_one that it treats as the keeper.
KeeperCandidates ==
    {i \in 1..Len(services) :
        /\ services[i].folder \notin InfrastructureFolders
        /\ services[i].name = keep_service}

\* C12: in stop_all_except_one, the requests of a keeper are the fetch, the
\* edit to (1, 1) when the fetch succeeded, and then one start request, sent
\* whether the fetch and the edit succeeded or failed; and the workflow
\* ends after taking up every discovered service, whatever failed.
C12_KeeperUpdatedThenStarted ==
    command = "stop" =>
        /\ \A i \in KeeperCandidates \cap Range(visited) :
              LET r == CallsAt(i)
                  n == Len(r)
              IN /\ \A k \in 1..n : r[k].target = services[i]
                 /\ \A k \in 1..n : r[k].kind = "start" => k = n /\ k > 1
                 /\ \A k \in 1..n :
                       r[k].kind = "edit" =>
                          /\ k = 2
                          /\ r[k].payload["minInstancesPerNode"] = 1
                          /\ r[k].payload["maxInstancesPerNode"] = 1
                 /\ i < idx =>
                       /\ r[n].kind = "start"
                       /\ r[1].kind = "detail"
                       /\ IF r[1].ok THEN n = 3 /\ r[2].kind = "edit" ELSE n = 2
        /\ Returned("stop") => visited = [i \in 1..Len(services) |-> i]

\* stop_all_except_one has ended after a keeper's edit request and start
\* request both failed and a service after the keeper got its stop request.
C12_Witness ==
    /\ Returned("stop")
    /\ \E i \in KeeperCandidates :
          /\ \E c \in Range(CallsAt(i)) : c.kind = "edit" /\ ~c.ok
          /\ \E c \in Range(CallsAt(i)) : c.kind = "start" /\ ~c.ok
          /\ \E j \in (i + 1)..Len(services) :
                \E c \in Range(CallsAt(j)) : c.kind = "stop"

\* Every edit request in the log comes right after a successful fetch of the
\* same service for the same candidate.
EditFollowsFetch ==
    \A k \in 1..Len(calls) :
        calls[k].kind = "edit" =>
            /\ k > 1
            /\ calls[k - 1].kind = "detail"
            /\ calls[k - 1].ok
            /\ calls[k - 1].target = calls[k].target
            /\ calls[k - 1].at = calls[k].at

\* The step of update_service_instances in which the fetch fails: the server
\* keeps its records, no edit request is to come, and the caller is told
\* False (restore then goes to its next row).
FailedFetchStep ==
    (pc = "usi_get" /\ (calls' = calls \/ ~calls'[Len(calls')].ok)) =>
        /\ server' = server
        /\ pc' # "usi_edit"
        /\ command = "restore" => pc' = "restore_loop" /\ restored_count' = restored_count

\* C13: update_service_instances sends no edit request when its fetch of
\* the service's record fails; it returns False and the server's records
\* stay as they were.
C13_FailedFetchSendsNoEdit == []EditFollowsFetch /\ [][FailedFetchStep]_vars

\* A workflow has ended after a fetch for an update failed, and the service
\* is as it was at the start.
C13_Witness ==
    /\ pc = "done"
    /\ command \in {"stop", "restore"}
    /\ \E c \in Calls :
          /\ c.kind = "detail"
          /\ ~c.ok
          /\ c.target \in DOMAIN server
          /\ ~\E e \in Calls : e.kind = "edit" /\ e.target = c.target
          /\ server[c.target]["maxInstancesPerNode"] = server0[c.target]["maxInstancesPerNode"]

\* A record's instance counts, when it has both, are in order.
BoundsInOrder(record) ==
    {"minInstancesPerNode", "maxInstancesPerNode"} \subseteq DOMAIN record
        => record["minInstancesPerNode"] <= record["maxInstancesPerNode"]

\* C14: every row save has written for a service whose record has its
\* instance counts in order, or lacks one or both, has
\* min_instances <= max_instances.
C14_RowBoundsInOrder ==
    (command = "save" /\ fileWriter = "save") =>
        \A i \in 1..Len(csvfile.rows) :
            BoundsInOrder(server[RowTarget(i)])
                => ParseInt(csvfile.rows[i][5]) <= ParseInt(csvfile.rows[i][6])

\* The candidates of stop_all_except_one that got a fetch, edit or start
\* request: those it treated as the keeper.
TreatedAsKeeper ==
    {i \in 1..Len(services) :
        \E c \in Range(CallsAt(i)) : c.kind \in {"detail", "edit", "start"}}

\* C15: when stop_all_except_one has ended, at most one discovered service
\* got the requests of the keeper, and every other discovered service
\* outside the excluded folders got a stop request.
C15_AtMostOneKeeper ==
    Returned("stop") =>
        /\ Cardinality(TreatedAsKeeper) <= 1
        /\ \A i \in 1..Len(services) :
              (i \notin TreatedAsKeeper /\ services[i].folder \notin InfrastructureFolders)
                  => \E c \in Range(CallsAt(i)) : c.kind = "stop"

\* get_services has returned to save or to stop_all_except_one.
Listed ==
    /\ command \in {"save", "stop"}
    /\ token # None
    /\ pc \notin {"main", "list_root", "list_folder"}

\* The listing request of a folder ("" for the root) succeeded.
ListedOk(folder) == \E c \in Calls : c.kind = "list" /\ c.ok /\ c.target.folder = folder

\* C16 as claimed: when the root listing succeeded, get_services returns
\* every service the server holds, in the root and in every folder, each
\* once, root services first and the folders in the server's order.
C16_ReturnsEveryService ==
    (Listed /\ ListedOk("")) =>
        /\ Range(services) = Range(catalog)
        /\ \A i, j \in 1..Len(services) : i < j => DiscoveredBefore(services[i], services[j])

\* C16 as amended: get_services returns the services of the root and of
\* every reported folder whose listing request succeeded, those of Hosted,
\* System and Utilities included, each once with its folder, root services
\* first and the folders in the server's order; it sent a listing request
\* for every reported folder; a folder whose listing failed gives no
\* service, and a failed root listing gives an empty result.
C16_ReturnsListedFolders ==
    Listed =>
        /\ Range(services) = {id \in Range(catalog) : ListedOk("") /\ ListedOk(id.folder)}
        /\ \A i, j \in 1..Len(services) : i < j => DiscoveredBefore(services[i], services[j])
        /\ ListedOk("") =>
              \A id \in Range(catalog) :
                  Cardinality({k \in 1..Len(calls) :
                                 /\ calls[k].kind = "list"
                                 /\ calls[k].target.folder = id.folder}) = 1

\* get_services has returned a root service and a service of an excluded
\* folder, without the services of a folder whose listing failed.
C16_Witness ==
    /\ Listed
    /\ \E i \in 1..Len(services) : services[i].folder = ""
    /\ \E i \in 1..Len(services) : services[i].folder \in InfrastructureFolders
    /\ \E c \in Calls : c.kind = "list" /\ ~c.ok /\ c.target.folder # ""

\* The number of candidates of the workflow's loop: the discovered services
\* for save and stop_all_except_one, the rows of the snapshot for restore.
Candidates == IF command = "restore" THEN Len(csvfile.rows) ELSE Len(services)

\* The workflow has returned after it began its loop.
LoopEnded ==
    /\ pc = "done"
    /\ wfResult # "none"
    /\ ~ioFailed
    /\ command \in {"save", "stop"} => services # <<>>

\* C17: when a workflow that began its loop has returned, the loop reached
\* its last candidate, no candidate was taken up twice, and no candidate
\* got two requests of the same kind (fetch, edit, start, stop), whatever
\* requests failed.
C17_EveryCandidateOnce ==
    LoopEnded =>
        /\ idx >= Candidates
        /\ Distinct(visited)
        /\ \A i \in 1..Candidates :
              \A kind \in {"detail", "edit", "start", "stop"} :
                  Cardinality({k \in 1..Len(calls) :
                                 /\ calls[k].at = i
                                 /\ calls[k].kind = kind}) <= 1

\* The step in which the edit request of update_service_instances succeeds:
\* every field of the fetched record that the payload carries is on the
\* server as it was fetched (the instance counts as requested), and no
\* change another client made to the record since the fetch is left.
LostUpdateStep ==
    (pc = "usi_edit" /\ pc' # "usi_edit" /\ Len(calls') > Len(calls) /\ calls'[Len(calls')].ok) =>
        /\ \A k \in DOMAIN usi.details \ {"status", "configuredState", "realTimeState", "extensions"} :
              /\ k \in DOMAIN server'[usi.id]
              /\ server'[usi.id][k] = (IF k = "minInstancesPerNode" THEN usi.min
                                       ELSE IF k = "maxInstancesPerNode" THEN usi.max
                                       ELSE usi.details[k])
        /\ \A n \in 1..Len(external) :
              (external[n].at = idx /\ external[n].id = usi.id) =>
                  server'[usi.id][external[n].key] # external[n].value

\* C18: update_service_instances fetches and posts in two steps, and when
\* another client changed a field of the record between them, the
\* successful edit puts the fetched value (or the requested instance count)
\* in its place: the other client's change is lost.
C18_ExternalChangeLost == [][LostUpdateStep]_vars

\* stop_all_except_one has ended after another client changed the keeper's
\* description between the fetch and a successful edit, and the server has
\* the description that was fetched.
C18_Witness ==
    /\ Returned("stop")
    /\ \E n \in 1..Len(external) :
          /\ external[n].key = "description"
          /\ \E c \in Range(CallsAt(external[n].at)) : c.kind = "edit" /\ c.ok
          /\ server[external[n].id]["description"] = server0[external[n].id]["description"]
          /\ server[external[n].id]["description"] # external[n].value

\* Between the fetch and the edit, update_service_instances holds the
\* record the server has.
FetchedIsServerRecord == pc = "usi_edit" => usi.details = server[usi.id]

\* The step in which update_service_instances sends its edit request: the
\* payload has the keys of the fetched record and the two instance counts,
\* without status, configuredState, realTimeState and extensions; the
\* instance counts are the requested ones and every other key has its
\* fetched value.
EditStep ==
    (pc = "usi_edit" /\ Len(calls') > Len(calls)) =>
        LET sent == calls'[Len(calls')]
            bounds == {"minInstancesPerNode", "maxInstancesPerNode"}
        IN /\ sent.kind = "edit"
           /\ sent.target = usi.id
           /\ DOMAIN sent.payload =
                 (DOMAIN usi.details \cup bounds)
                    \ {"status", "configuredState", "realTimeState", "extensions"}
           /\ sent.payload["minInstancesPerNode"] = usi.min
           /\ sent.payload["maxInstancesPerNode"] = usi.max
           /\ \A k \in DOMAIN sent.payload \ bounds : sent.payload[k] = usi.details[k]

\* C19: the payload of every edit request is the fetched record with
\* minInstancesPerNode and maxInstancesPerNode set to the requested values
\* and exactly status, configuredState, realTimeState and extensions
\* removed; every other key is sent with its fetched value and no other key
\* is added.
C19_PayloadIsFetchedRecord == []FetchedIsServerRecord /\ [][EditStep]_vars

\* An edit request was sent for a record that had the four read-only keys
\* and a description, and for instance counts other than the record's.
C19_Witness ==
    \E c \in Calls :
        /\ c.kind = "edit"
        /\ {"status", "configuredState", "realTimeState", "extensions", "description"}
              \subseteq DOMAIN server0[c.target]
        /\ c.payload["description"] = server0[c.target]["description"]
        /\ c.payload["maxInstancesPerNode"] # server0[c.target]["maxInstancesPerNode"]

\* The rows restore has taken up that lie in an excluded folder.
SkippedRows == {i \in Range(visited) : csvfile.rows[i][1] \in InfrastructureFolders}

\* The rows restore has taken up whose edit request and whose start or stop
\* request both succeeded.
RestoredRows ==
    {i \in Range(visited) :
        /\ \E c \in Range(CallsAt(i)) : c.kind = "edit" /\ c.ok
        /\ \E c \in Range(CallsAt(i)) : c.kind \in {"start", "stop"} /\ c.ok}

C21_StopsAllThenFails ==
    (Listed /\ command = "stop" /\ KeeperCandidates = {}) =>
        /\ \A c \in Calls : c.kind \in {"list", "stop"}
        /\ pc # "done" => wfResult = "none"
        /\ pc = "done" =>
              /\ wfResult = "False"
              /\ exitCode = 1
              /\ \A i \in 1..Len(services) :
                    services[i].folder \notin InfrastructureFolders =>
                        /\ Len(CallsAt(i)) = 1
                        /\ CallsAt(i)[1].kind = "stop"
                        /\ CallsAt(i)[1].target = services[i]

\* stop_all_except_one has returned False after sending stop requests, one
\* of which succeeded and one of which failed, while the only discovered
\* service with the keeper's name lies in an excluded folder.
C21_Witness ==
    /\ Returned("stop")
    /\ wfResult = "False"
    /\ KeeperCandidates = {}
    /\ \E i \in 1..Len(services) :
          services[i].name = keep_service /\ services[i].folder \in InfrastructureFolders
    /\ \E c \in Calls : c.kind = "stop" /\ c.ok
    /\ \E c \in Calls : c.kind = "stop" /\ ~c.ok

====
